---- MODULE Spec2Model ----
(***************************************************************************)
(* mypkgs.core: the report of manually installed Debian packages.          *)
(*                                                                         *)
(* Text is modelled as sequences of one-character strings, so that the     *)
(* string operations of the source (startswith, slicing, strip, split,     *)
(* "in", the two regular expressions, sorted) are computed character by    *)
(* character.  The pipeline read -> read -> read -> merge -> print is a    *)
(* program counter; every line read from a file is one step, and a read    *)
(* may raise at any step.                                                  *)
(***************************************************************************)
EXTENDS Integers, Sequences, FiniteSets, TLC

VARIABLES
  pc,                               \* position in main / get_manual_installed_packages / the readers
  f_lines,                          \* lines of the file the running reader has open (ES and status readers)
  f_pos,                            \* number of lines the running reader has consumed
  package_name,                     \* reader local: <<>> is None, <<s>> is the string s
  auto_installed,                   \* reader local of the extended-states reader
  reader_packages,                  \* reader local: manual_packages / auto_packages of the running reader
  log_files,                        \* glob result: one entry per file, TRUE when the name ends with ".gz"
  log_idx,                          \* number of log files already handled
  line,                             \* the log line the loop body is working on, <<>> outside the body
  manual_packages_extended_states,  \* core.py:25
  manual_packages_logs,             \* core.py:29
  auto_installed_packages,          \* core.py:33
  manual_packages,                  \* core.py:22, the result set
  stdout,                           \* lines written to standard output
  stderr,                           \* lines written to standard error
  exit_code,                        \* -1 while running, then the process exit status
  uncaught,                         \* reader whose exception escaped, "none" otherwise
  failed,                           \* readers in which a read raised (history)
  no_failure_manual,                \* what the two manual readers yield from the same contents without failure (history)
  no_failure_auto                   \* what the status reader yields from the same contents without failure (history)

vars == <<pc, f_lines, f_pos, package_name, auto_installed, reader_packages,
          log_files, log_idx, line, manual_packages_extended_states,
          manual_packages_logs, auto_installed_packages, manual_packages,
          stdout, stderr, exit_code, uncaught, failed,
          no_failure_manual, no_failure_auto>>

----------------------------------------------------------------------------
(* Bounds *)

MaxESLines == 3
MaxStatusLines == 3
MaxLogFiles == 2
MaxLogLines == 2
MaxTokens == 2

----------------------------------------------------------------------------
(* String literals of the source *)

S_Package == <<"P","a","c","k","a","g","e",":"," ">>
S_AutoInstalled == <<"A","u","t","o","-","I","n","s","t","a","l","l","e","d",":"," ">>
S_Status == <<"S","t","a","t","u","s",":"," ">>
S_auto == <<"a","u","t","o">>
S_yes == <<"y","e","s">>
S_install == <<"i","n","s","t","a","l","l">>
S_sp_install_sp == <<" ","i","n","s","t","a","l","l"," ">>
S_comma_sp == <<","," ">>
S_dot == <<".">>

\* [a-z0-9._+-]
NameChars == {"a","b","c","d","e","f","g","h","i","j","k","l","m","n","o","p","q","r","s","t","u","v","w","x","y","z","0","1","2","3","4","5","6","7","8","9",".","_","+","-"}

\* [0-9.:~-]
VersionChars == {"0","1","2","3","4","5","6","7","8","9",".",":","~","-"}

\* \s of the regular expressions and the characters str.strip() removes
Whitespace == {" ", "\t", "\n", "\r", "\f"}

\* the characters of the model in code point order
Ascii == <<"\t","\n"," ","+",",","-",".","0","1","2","3","4","5","6","7","8","9",":","=","A","I","P","S","_","a","b","c","d","e","f","g","h","i","j","k","l","m","n","o","p","q","r","s","t","u","v","w","x","y","z","~">>

Ord(c) == CHOOSE i \in 1..Len(Ascii) : Ascii[i] = c

----------------------------------------------------------------------------
(* Python string operations *)

StartsWith(s, p) == Len(s) >= Len(p) /\ SubSeq(s, 1, Len(p)) = p

\* s[n:]
SliceFrom(s, n) == SubSeq(s, n + 1, Len(s))

\* sub in s
Contains(s, sub) == \E i \in 1..(Len(s) - Len(sub) + 1) : SubSeq(s, i, i + Len(sub) - 1) = sub

RECURSIVE LStrip(_)
LStrip(s) == IF s # <<>> /\ Head(s) \in Whitespace THEN LStrip(Tail(s)) ELSE s

RECURSIVE RStrip(_)
RStrip(s) == IF s # <<>> /\ s[Len(s)] \in Whitespace THEN RStrip(SubSeq(s, 1, Len(s) - 1)) ELSE s

Strip(s) == RStrip(LStrip(s))

\* index of the first occurrence of sep in s at or after position i, 0 if none
RECURSIVE Find(_, _, _)
Find(s, sep, i) ==
  IF i + Len(sep) - 1 > Len(s) THEN 0
  ELSE IF SubSeq(s, i, i + Len(sep) - 1) = sep THEN i
  ELSE Find(s, sep, i + 1)

\* s.split(sep)
RECURSIVE Split(_, _)
Split(s, sep) ==
  LET i == Find(s, sep, 1) IN
  IF i = 0 THEN <<s>>
  ELSE <<SubSeq(s, 1, i - 1)>> \o Split(SubSeq(s, i + Len(sep), Len(s)), sep)

\* s < t for Python strings
RECURSIVE StrLess(_, _)
StrLess(s, t) ==
  IF t = <<>> THEN FALSE
  ELSE IF s = <<>> THEN TRUE
  ELSE IF Head(s) = Head(t) THEN StrLess(Tail(s), Tail(t))
  ELSE Ord(Head(s)) < Ord(Head(t))

\* sorted(set of strings) by repeated insertion
\* variant: the comparison is reversed
RECURSIVE Insert_Descending(_, _)
Insert_Descending(x, sq) ==
  IF sq = <<>> THEN <<x>>
  ELSE IF StrLess(x, sq[1]) THEN <<sq[1]>> \o Insert_Descending(x, Tail(sq))
  ELSE <<x>> \o sq

RECURSIVE Insert(_, _)
Insert(x, sq) ==
  IF sq = <<>> THEN <<x>>
  ELSE IF StrLess(sq[1], x) THEN <<sq[1]>> \o Insert(x, Tail(sq))
  ELSE <<x>> \o sq

RECURSIVE SortedList(_)
SortedList(S) ==
  IF S = {} THEN <<>>
  ELSE LET x == CHOOSE y \in S : TRUE IN Insert(x, SortedList(S \ {x}))

None == <<>>
Some(s) == <<s>>
\* truth value of an optional string: None and "" are false
Truthy(p) == p # None /\ p[1] # <<>>

----------------------------------------------------------------------------
(* Set operations of get_manual_installed_packages *)

Update(s, t) == s \cup t

\* variant: the subtraction is dropped
DifferenceUpdate_NoOp(s, t) == s

\* variant: symmetric_difference_update in place of difference_update
DifferenceUpdate_Symmetric(s, t) == (s \ t) \cup (t \ s)

DifferenceUpdate(s, t) == s \ t

----------------------------------------------------------------------------
(* Exceptions *)

\* classes that derive from OSError (IOError is an alias of OSError)
OSErrorClasses == {"OSError", "PermissionError", "BadGzipFile"}

IsInstance(exc, cls) ==
  \/ exc = cls
  \/ cls \in {"OSError", "IOError"} /\ exc \in OSErrorClasses

\* does "except (handlers)" catch exc
Caught(exc, handlers) == \E h \in handlers : IsInstance(exc, h)

\* what open() can raise on an existing file
OpenRaises == {"PermissionError"}

\* what reading a line of a text file opened with encoding="utf-8" can raise
ReadRaises == {"OSError", "UnicodeDecodeError"}

\* what reading a line through gzip.open(..., "rt") can raise
GzipReadRaises == ReadRaises \cup {"BadGzipFile", "EOFError", "zlib.error"}

\* an uncaught exception ends the interpreter: traceback on stderr, status 1
Traceback(exc) == [kind |-> "traceback", name |-> <<>>]

----------------------------------------------------------------------------
(* Output lines *)

PackageOut(n) == [kind |-> "package", name |-> n]
NoneFoundOut == [kind |-> "none_found", name |-> <<>>]
ErrorReadingOut(file) == [kind |-> file, name |-> <<>>]

----------------------------------------------------------------------------
(* Input files *)

SeqsUpTo(S, n) == UNION {[1..k -> S] : k \in 0..n}

\* package names that occur in the record files
PackageNames == {<<"a">>, <<"a","b">>}

PackageLine(n) == S_Package \o n \o <<"\n">>
AutoInstalledYes == S_AutoInstalled \o S_yes \o <<"\n">>
AutoInstalledNo == S_AutoInstalled \o <<"n","o","\n">>
ArchitectureLine == <<"A","r","c","h","i","t","e","c","t","u","r","e",":"," ","a","m","d","6","4","\n">>
BlankLine == <<"\n">>

ESLineSet ==
  {PackageLine(n) : n \in PackageNames \cup {<<>>}}
    \cup {AutoInstalledYes, AutoInstalledNo, ArchitectureLine, BlankLine}

ESFiles == SeqsUpTo(ESLineSet, MaxESLines)

----------------------------------------------------------------------------
(* _get_manual_installed_packages_from_extended_states *)

ESLocals(n, a, m) == [package_name |-> n, auto_installed |-> a, manual_packages |-> m]

\* body of "for line in f"
ESStep(st, l) ==
  IF StartsWith(l, S_Package)
    THEN ESLocals(Some(Strip(SliceFrom(l, 9))), FALSE, st.manual_packages)
  ELSE IF StartsWith(l, S_AutoInstalled)
    THEN ESLocals(st.package_name, Strip(SliceFrom(l, 16)) = S_yes, st.manual_packages)
  ELSE IF Truthy(st.package_name) /\ ~st.auto_installed
    THEN ESLocals(st.package_name, st.auto_installed,
                  st.manual_packages \cup {st.package_name[1]})
  ELSE st

RECURSIVE ESRun(_, _, _)
ESRun(st, file, i) ==
  IF i > Len(file) THEN st ELSE ESRun(ESStep(st, file[i]), file, i + 1)

\* the reader's result on a file that is read to its end
ParseES(file) == ESRun(ESLocals(None, FALSE, {}), file, 1).manual_packages

ClearLocals ==
  /\ f_lines' = <<>>
  /\ f_pos' = 0
  /\ package_name' = None
  /\ auto_installed' = FALSE
  /\ reader_packages' = {}

Crash(reader, exc) ==
  /\ pc' = "crashed"
  /\ uncaught' = reader
  /\ exit_code' = 1
  /\ stderr' = Append(stderr, Traceback(exc))

ES_Missing ==
  /\ pc = "es_exists"
  /\ pc' = "merge_es"
  /\ manual_packages_extended_states' = {}
  /\ UNCHANGED <<f_lines, f_pos, package_name, auto_installed, reader_packages,
                 log_files, log_idx, line, manual_packages_logs,
                 auto_installed_packages, manual_packages, stdout, stderr,
                 exit_code, uncaught, failed, no_failure_manual, no_failure_auto>>

ES_Exists ==
  /\ pc = "es_exists"
  /\ \E file \in ESFiles :
       /\ f_lines' = file
       /\ no_failure_manual' = no_failure_manual \cup ParseES(file)
  /\ pc' = "es_open"
  /\ UNCHANGED <<f_pos, package_name, auto_installed, reader_packages,
                 log_files, log_idx, line, manual_packages_extended_states,
                 manual_packages_logs, auto_installed_packages, manual_packages,
                 stdout, stderr, exit_code, uncaught, failed, no_failure_auto>>

ES_Open ==
  /\ pc = "es_open"
  /\ pc' = "es_read"
  /\ f_pos' = 0
  /\ package_name' = None
  /\ auto_installed' = FALSE
  /\ reader_packages' = {}
  /\ UNCHANGED <<f_lines, log_files, log_idx, line, manual_packages_extended_states,
                 manual_packages_logs, auto_installed_packages, manual_packages,
                 stdout, stderr, exit_code, uncaught, failed,
                 no_failure_manual, no_failure_auto>>

ES_ReadLine ==
  /\ pc = "es_read"
  /\ f_pos < Len(f_lines)
  /\ LET st == ESStep(ESLocals(package_name, auto_installed, reader_packages),
                      f_lines[f_pos + 1])
     IN /\ package_name' = st.package_name
        /\ auto_installed' = st.auto_installed
        /\ reader_packages' = st.manual_packages
  /\ f_pos' = f_pos + 1
  /\ UNCHANGED <<pc, f_lines, log_files, log_idx, line, manual_packages_extended_states,
                 manual_packages_logs, auto_installed_packages, manual_packages,
                 stdout, stderr, exit_code, uncaught, failed,
                 no_failure_manual, no_failure_auto>>

\* open() or the read of a line raises exc
ES_Raise(exc) ==
  /\ \/ pc = "es_open" /\ exc \in OpenRaises
     \/ pc = "es_read" /\ exc \in ReadRaises
  /\ failed' = failed \cup {"es"}
  /\ IF Caught(exc, {"IOError", "OSError"})
       THEN /\ stdout' = Append(stdout, ErrorReadingOut("error_reading_extended_states"))
            /\ manual_packages_extended_states' = {}
            /\ pc' = "merge_es"
            /\ ClearLocals
            /\ UNCHANGED <<stderr, exit_code, uncaught>>
       ELSE /\ Crash("es", exc)
            /\ UNCHANGED <<f_lines, f_pos, package_name, auto_installed,
                           reader_packages, manual_packages_extended_states, stdout>>
  /\ UNCHANGED <<log_files, log_idx, line, manual_packages_logs,
                 auto_installed_packages, manual_packages,
                 no_failure_manual, no_failure_auto>>

ES_Return ==
  /\ pc = "es_read"
  /\ f_pos = Len(f_lines)
  /\ manual_packages_extended_states' = reader_packages
  /\ pc' = "merge_es"
  /\ ClearLocals
  /\ UNCHANGED <<log_files, log_idx, line, manual_packages_logs,
                 auto_installed_packages, manual_packages, stdout, stderr,
                 exit_code, uncaught, failed, no_failure_manual, no_failure_auto>>

\* core.py:26
MergeExtendedStates ==
  /\ pc = "merge_es"
  /\ manual_packages' = Update(manual_packages, manual_packages_extended_states)
  /\ pc' = "logs_glob"
  /\ UNCHANGED <<f_lines, f_pos, package_name, auto_installed, reader_packages,
                 log_files, log_idx, line, manual_packages_extended_states,
                 manual_packages_logs, auto_installed_packages, stdout, stderr,
                 exit_code, uncaught, failed, no_failure_manual, no_failure_auto>>

----------------------------------------------------------------------------
(* Log lines *)

Tokens == {<<"a">>, <<"a","b","=","1">>, S_dot}

Separators == {<<","," ">>, <<",">>, <<","," "," ">>}

RECURSIVE InstallLists(_)
InstallLists(k) ==
  IF k = 1 THEN Tokens
  ELSE {l \o s \o t : l \in InstallLists(k - 1), s \in Separators, t \in Tokens}

InstallLine(l) == <<"a","p","t">> \o S_sp_install_sp \o l \o <<"\n">>
UpgradeLine == <<"a","p","t"," ","u","p","g","r","a","d","e","\n">>
\* "install" at the start of the line: the pattern matches, the " install " test does not
BareInstallLine == S_install \o <<" ","a","\n">>

LogLines ==
  {InstallLine(l) : l \in UNION {InstallLists(k) : k \in 1..MaxTokens}}
    \cup {UpgradeLine, BareInstallLine}

----------------------------------------------------------------------------
(* The two regular expressions of _get_manual_installed_packages_from_logs *)

CharAt(s, i) == IF i >= 1 /\ i <= Len(s) THEN s[i] ELSE ""

\* first index >= i whose character is not in cls
RECURSIVE SkipWhile(_, _, _)
SkipWhile(s, i, cls) == IF CharAt(s, i) \in cls THEN SkipWhile(s, i + 1, cls) ELSE i

\* [a-z0-9._+-]+(?:=[0-9.:~-]+)? from i, where s[i] is a name character:
\* the index after the token
TokenEnd(s, i) ==
  LET n == SkipWhile(s, i, NameChars) IN
  IF CharAt(s, n) = "=" /\ CharAt(s, n + 1) \in VersionChars
    THEN SkipWhile(s, n + 1, VersionChars)
    ELSE n

\* (,\s*token)* from e, greedy: the index after the last token taken
RECURSIVE ListEnd(_, _)
ListEnd(s, e) ==
  IF CharAt(s, e) = ","
    THEN LET k == SkipWhile(s, e + 1, Whitespace) IN
         IF CharAt(s, k) \in NameChars THEN ListEnd(s, TokenEnd(s, k)) ELSE e
    ELSE e

\* can install_pattern match with "install" at index i
MatchesAt(s, i) ==
  /\ i + 6 <= Len(s)
  /\ SubSeq(s, i, i + 6) = S_install
  /\ CharAt(s, i + 7) \in Whitespace
  /\ CharAt(s, SkipWhile(s, i + 7, Whitespace)) \in NameChars

\* install_pattern.search(s).group("packages"), None when there is no match
InstallPatternSearch(s) ==
  IF \E i \in 1..Len(s) : MatchesAt(s, i)
    THEN LET i == CHOOSE j \in 1..Len(s) :
                    MatchesAt(s, j) /\ \A k \in 1..(j - 1) : ~MatchesAt(s, k)
             b == SkipWhile(s, i + 7, Whitespace)
         IN Some(SubSeq(s, b, ListEnd(s, TokenEnd(s, b)) - 1))
    ELSE None

\* package_name_pattern.match(entry).group(1), None when there is no match
PackageNamePatternMatch(entry) ==
  IF CharAt(entry, 1) \in NameChars
    THEN Some(SubSeq(entry, 1, SkipWhile(entry, 1, NameChars) - 1))
    ELSE None

SplitSeparator == S_comma_sp

\* names added for the entries of package_list
EntryNames(package_list) ==
  {PackageNamePatternMatch(package_list[i])[1] :
     i \in {j \in 1..Len(package_list) :
              /\ PackageNamePatternMatch(package_list[j]) # None
              /\ PackageNamePatternMatch(package_list[j])[1] # S_dot}}

\* names the body of "for line in f" adds for line l
ScanLine(l) ==
  IF Contains(l, S_sp_install_sp)
    THEN LET match == InstallPatternSearch(l) IN
         IF match # None THEN EntryNames(Split(match[1], SplitSeparator)) ELSE {}
    ELSE {}

\* names any log line can contribute
LogNames == UNION {ScanLine(l) : l \in LogLines}

\* variant: the handler starts over with an empty set
AfterExceptPass_Reset(pkgs) == {}

\* "except ...: pass" leaves the names gathered so far in place
AfterExceptPass(pkgs) == pkgs

LogHandlers(gz) ==
  IF gz THEN {"IOError", "OSError", "BadGzipFile"} ELSE {"IOError", "OSError"}

----------------------------------------------------------------------------
(* _get_manual_installed_packages_from_logs *)

\* core.py:30
MergeLogs ==
  /\ pc = "merge_logs"
  /\ manual_packages' = Update(manual_packages, manual_packages_logs)
  /\ pc' = "status_exists"
  /\ UNCHANGED <<f_lines, f_pos, package_name, auto_installed, reader_packages,
                 log_files, log_idx, line, manual_packages_extended_states,
                 manual_packages_logs, auto_installed_packages, stdout, stderr,
                 exit_code, uncaught, failed, no_failure_manual, no_failure_auto>>

Logs_Glob ==
  /\ pc = "logs_glob"
  /\ \E files \in SeqsUpTo(BOOLEAN, MaxLogFiles) : log_files' = files
  /\ log_idx' = 0
  /\ reader_packages' = {}
  /\ pc' = "logs_loop"
  /\ UNCHANGED <<f_lines, f_pos, package_name, auto_installed, line,
                 manual_packages_extended_states, manual_packages_logs,
                 auto_installed_packages, manual_packages, stdout, stderr,
                 exit_code, uncaught, failed, no_failure_manual, no_failure_auto>>

Log_Open ==
  /\ pc = "logs_loop"
  /\ log_idx < Len(log_files)
  /\ pc' = "log_read"
  /\ f_pos' = 0
  /\ UNCHANGED <<f_lines, package_name, auto_installed, reader_packages,
                 log_files, log_idx, line, manual_packages_extended_states,
                 manual_packages_logs, auto_installed_packages, manual_packages,
                 stdout, stderr, exit_code, uncaught, failed,
                 no_failure_manual, no_failure_auto>>

\* "for line in f" yields the next line
Log_ReadLine ==
  /\ pc = "log_read"
  /\ f_pos < MaxLogLines
  /\ \E l \in LogLines : line' = l
  /\ f_pos' = f_pos + 1
  /\ pc' = "log_scan"
  /\ UNCHANGED <<f_lines, package_name, auto_installed, reader_packages,
                 log_files, log_idx, manual_packages_extended_states,
                 manual_packages_logs, auto_installed_packages, manual_packages,
                 stdout, stderr, exit_code, uncaught, failed,
                 no_failure_manual, no_failure_auto>>

\* the body of the loop; the line is not used after it
Log_ScanLine ==
  /\ pc = "log_scan"
  /\ reader_packages' = reader_packages \cup ScanLine(line)
  /\ no_failure_manual' = no_failure_manual \cup ScanLine(line)
  /\ line' = <<>>
  /\ pc' = "log_read"
  /\ UNCHANGED <<f_lines, f_pos, package_name, auto_installed, log_files, log_idx,
                 manual_packages_extended_states, manual_packages_logs,
                 auto_installed_packages, manual_packages, stdout, stderr,
                 exit_code, uncaught, failed, no_failure_auto>>

Log_EOF ==
  /\ pc = "log_read"
  /\ pc' = "logs_loop"
  /\ log_idx' = log_idx + 1
  /\ f_pos' = 0
  /\ line' = <<>>
  /\ UNCHANGED <<f_lines, package_name, auto_installed, reader_packages,
                 log_files, manual_packages_extended_states, manual_packages_logs,
                 auto_installed_packages, manual_packages, stdout, stderr,
                 exit_code, uncaught, failed, no_failure_manual, no_failure_auto>>

\* opening the current log file or reading a line of it raises exc; the lines
\* that were not read would have contributed the names in rest
Log_Raise(exc) ==
  /\ \/ pc = "logs_loop" /\ log_idx < Len(log_files) /\ exc \in OpenRaises
     \/ /\ pc = "log_read"
        /\ exc \in (IF log_files[log_idx + 1] THEN GzipReadRaises ELSE ReadRaises)
  /\ failed' = failed \cup {"logs"}
  /\ IF Caught(exc, LogHandlers(log_files[log_idx + 1]))
       THEN /\ reader_packages' = AfterExceptPass(reader_packages)
            /\ pc' = "logs_loop"
            /\ log_idx' = log_idx + 1
            /\ f_pos' = 0
            /\ line' = <<>>
            /\ \E rest \in SUBSET LogNames :
                 no_failure_manual' = no_failure_manual \cup rest
            /\ UNCHANGED <<stderr, exit_code, uncaught>>
       ELSE /\ Crash("logs", exc)
            /\ UNCHANGED <<reader_packages, log_idx, f_pos, line, no_failure_manual>>
  /\ UNCHANGED <<f_lines, package_name, auto_installed, log_files,
                 manual_packages_extended_states, manual_packages_logs,
                 auto_installed_packages, manual_packages, stdout, no_failure_auto>>

Logs_Return ==
  /\ pc = "logs_loop"
  /\ log_idx = Len(log_files)
  /\ manual_packages_logs' = reader_packages
  /\ pc' = "merge_logs"
  /\ log_files' = <<>>
  /\ log_idx' = 0
  /\ reader_packages' = {}
  /\ UNCHANGED <<f_lines, f_pos, package_name, auto_installed, line,
                 manual_packages_extended_states, auto_installed_packages,
                 manual_packages, stdout, stderr, exit_code, uncaught, failed,
                 no_failure_manual, no_failure_auto>>

----------------------------------------------------------------------------
(* _get_auto_installed_packages *)

StatusAutoLine == S_Status \o <<"i","n","s","t","a","l","l"," ","o","k"," ">> \o S_auto \o <<"\n">>
StatusInstalledLine == S_Status \o <<"i","n","s","t","a","l","l"," ","o","k"," ","i","n","s","t","a","l","l","e","d","\n">>

StatusLineSet ==
  {PackageLine(n) : n \in PackageNames \cup {<<>>}}
    \cup {StatusAutoLine, StatusInstalledLine, BlankLine}

StatusFiles == SeqsUpTo(StatusLineSet, MaxStatusLines)

StatusLocals(n, a) == [package_name |-> n, auto_packages |-> a]

\* variant: the test for the marker substring is missing
StatusStep_AnyStatus(st, l) ==
  IF StartsWith(l, S_Package)
    THEN StatusLocals(Some(Strip(SliceFrom(l, 9))), st.auto_packages)
  ELSE IF StartsWith(l, S_Status)
    THEN IF Truthy(st.package_name)
           THEN StatusLocals(st.package_name, st.auto_packages \cup {st.package_name[1]})
           ELSE st
  ELSE st

\* body of "for line in f"
StatusStep(st, l) ==
  IF StartsWith(l, S_Package)
    THEN StatusLocals(Some(Strip(SliceFrom(l, 9))), st.auto_packages)
  ELSE IF StartsWith(l, S_Status) /\ Contains(l, S_auto)
    THEN IF Truthy(st.package_name)
           THEN StatusLocals(st.package_name, st.auto_packages \cup {st.package_name[1]})
           ELSE st
  ELSE st

RECURSIVE StatusRun(_, _, _)
StatusRun(st, file, i) ==
  IF i > Len(file) THEN st ELSE StatusRun(StatusStep(st, file[i]), file, i + 1)

\* the reader's result on a file that is read to its end
ParseStatus(file) == StatusRun(StatusLocals(None, {}), file, 1).auto_packages

Status_Missing ==
  /\ pc = "status_exists"
  /\ pc' = "remove_auto"
  /\ auto_installed_packages' = {}
  /\ UNCHANGED <<f_lines, f_pos, package_name, auto_installed, reader_packages,
                 log_files, log_idx, line, manual_packages_extended_states,
                 manual_packages_logs, manual_packages, stdout, stderr,
                 exit_code, uncaught, failed, no_failure_manual, no_failure_auto>>

Status_Exists ==
  /\ pc = "status_exists"
  /\ \E file \in StatusFiles :
       /\ f_lines' = file
       /\ no_failure_auto' = ParseStatus(file)
  /\ pc' = "status_open"
  /\ UNCHANGED <<f_pos, package_name, auto_installed, reader_packages,
                 log_files, log_idx, line, manual_packages_extended_states,
                 manual_packages_logs, auto_installed_packages, manual_packages,
                 stdout, stderr, exit_code, uncaught, failed, no_failure_manual>>

Status_Open ==
  /\ pc = "status_open"
  /\ pc' = "status_read"
  /\ f_pos' = 0
  /\ package_name' = None
  /\ reader_packages' = {}
  /\ UNCHANGED <<f_lines, auto_installed, log_files, log_idx, line,
                 manual_packages_extended_states, manual_packages_logs,
                 auto_installed_packages, manual_packages, stdout, stderr,
                 exit_code, uncaught, failed, no_failure_manual, no_failure_auto>>

Status_ReadLine ==
  /\ pc = "status_read"
  /\ f_pos < Len(f_lines)
  /\ LET st == StatusStep(StatusLocals(package_name, reader_packages), f_lines[f_pos + 1])
     IN /\ package_name' = st.package_name
        /\ reader_packages' = st.auto_packages
  /\ f_pos' = f_pos + 1
  /\ UNCHANGED <<pc, f_lines, auto_installed, log_files, log_idx, line,
                 manual_packages_extended_states, manual_packages_logs,
                 auto_installed_packages, manual_packages, stdout, stderr,
                 exit_code, uncaught, failed, no_failure_manual, no_failure_auto>>

\* open() or the read of a line raises exc
Status_Raise(exc) ==
  /\ \/ pc = "status_open" /\ exc \in OpenRaises
     \/ pc = "status_read" /\ exc \in ReadRaises
  /\ failed' = failed \cup {"status"}
  /\ IF Caught(exc, {"IOError", "OSError"})
       THEN /\ stdout' = Append(stdout, ErrorReadingOut("error_reading_status"))
            /\ auto_installed_packages' = {}
            /\ pc' = "remove_auto"
            /\ ClearLocals
            /\ UNCHANGED <<stderr, exit_code, uncaught>>
       ELSE /\ Crash("status", exc)
            /\ UNCHANGED <<f_lines, f_pos, package_name, auto_installed,
                           reader_packages, auto_installed_packages, stdout>>
  /\ UNCHANGED <<log_files, log_idx, line, manual_packages_extended_states,
                 manual_packages_logs, manual_packages,
                 no_failure_manual, no_failure_auto>>

Status_Return ==
  /\ pc = "status_read"
  /\ f_pos = Len(f_lines)
  /\ auto_installed_packages' = reader_packages
  /\ pc' = "remove_auto"
  /\ ClearLocals
  /\ UNCHANGED <<log_files, log_idx, line, manual_packages_extended_states,
                 manual_packages_logs, manual_packages, stdout, stderr,
                 exit_code, uncaught, failed, no_failure_manual, no_failure_auto>>

\* core.py:34
RemoveAuto ==
  /\ pc = "remove_auto"
  /\ manual_packages' = DifferenceUpdate(manual_packages, auto_installed_packages)
  /\ pc' = "report"
  /\ UNCHANGED <<f_lines, f_pos, package_name, auto_installed, reader_packages,
                 log_files, log_idx, line, manual_packages_extended_states,
                 manual_packages_logs, auto_installed_packages, stdout, stderr,
                 exit_code, uncaught, failed, no_failure_manual, no_failure_auto>>

----------------------------------------------------------------------------
(* main *)

\* the lines main prints for the result set R
Report(R) ==
  IF R # {}
    THEN LET sorted == SortedList(R) IN [i \in 1..Len(sorted) |-> PackageOut(sorted[i])]
    ELSE <<NoneFoundOut>>

Main_Report ==
  /\ pc = "report"
  /\ stdout' = stdout \o Report(manual_packages)
  /\ exit_code' = 0
  /\ pc' = "done"
  /\ UNCHANGED <<f_lines, f_pos, package_name, auto_installed, reader_packages,
                 log_files, log_idx, line, manual_packages_extended_states,
                 manual_packages_logs, auto_installed_packages, manual_packages,
                 stderr, uncaught, failed, no_failure_manual, no_failure_auto>>

----------------------------------------------------------------------------
(* The program *)

Init ==
  /\ pc = "es_exists"
  /\ f_lines = <<>>
  /\ f_pos = 0
  /\ package_name = None
  /\ auto_installed = FALSE
  /\ reader_packages = {}
  /\ log_files = <<>>
  /\ log_idx = 0
  /\ line = <<>>
  /\ manual_packages_extended_states = {}
  /\ manual_packages_logs = {}
  /\ auto_installed_packages = {}
  /\ manual_packages = {}
  /\ stdout = <<>>
  /\ stderr = <<>>
  /\ exit_code = -1
  /\ uncaught = "none"
  /\ failed = {}
  /\ no_failure_manual = {}
  /\ no_failure_auto = {}

AllRaises == OpenRaises \cup GzipReadRaises

Next ==
  \/ ES_Missing
  \/ ES_Exists
  \/ ES_Open
  \/ ES_ReadLine
  \/ \E exc \in AllRaises : ES_Raise(exc)
  \/ ES_Return
  \/ MergeExtendedStates
  \/ Logs_Glob
  \/ Log_Open
  \/ Log_ReadLine
  \/ Log_ScanLine
  \/ Log_EOF
  \/ \E exc \in AllRaises : Log_Raise(exc)
  \/ Logs_Return
  \/ MergeLogs
  \/ Status_Missing
  \/ Status_Exists
  \/ Status_Open
  \/ Status_ReadLine
  \/ \E exc \in AllRaises : Status_Raise(exc)
  \/ Status_Return
  \/ RemoveAuto
  \/ Main_Report

Spec == Init /\ [][Next]_vars

----------------------------------------------------------------------------
(* Vocabulary of the properties *)

IsBlank(l) == Strip(l) = <<>>
IsPackageLine(l) == StartsWith(l, S_Package)
NameOfLine(l) == Strip(SliceFrom(l, 9))
IsAutoInstalledLine(l) == StartsWith(l, S_AutoInstalled)
IsStatusLine(l) == StartsWith(l, S_Status)

\* lines i and j of file lie in the same paragraph
SameParagraph(file, i, j) ==
  \A k \in 1..Len(file) : (k >= i /\ k <= j) \/ (k >= j /\ k <= i) => ~IsBlank(file[k])

\* line i opens a paragraph
ParagraphStart(file, i) == ~IsBlank(file[i]) /\ (i = 1 \/ IsBlank(file[i - 1]))

\* every paragraph is one record: it opens with a Package line that carries a
\* name, holds no second Package line and at most one Auto-Installed line, and
\* no two records carry the same name
WellFormedES(file) ==
  /\ \A i \in 1..Len(file) :
       ~IsBlank(file[i]) =>
         (IsPackageLine(file[i]) <=> ParagraphStart(file, i))
  /\ \A i \in 1..Len(file) : IsPackageLine(file[i]) => NameOfLine(file[i]) # <<>>
  /\ \A i, j \in 1..Len(file) :
       i # j /\ IsAutoInstalledLine(file[i]) /\ IsAutoInstalledLine(file[j])
         => ~SameParagraph(file, i, j)
  /\ \A i, j \in 1..Len(file) :
       i # j /\ IsPackageLine(file[i]) /\ IsPackageLine(file[j])
         => NameOfLine(file[i]) # NameOfLine(file[j])

\* the record opened by line i says Auto-Installed: yes
RecordAutoYes(file, i) ==
  \E j \in 1..Len(file) :
    /\ SameParagraph(file, i, j)
    /\ IsAutoInstalledLine(file[j])
    /\ Strip(SliceFrom(file[j], 16)) = S_yes

ESAtEnd == pc = "es_read" /\ f_pos = Len(f_lines)
StatusAtEnd == pc = "status_read" /\ f_pos = Len(f_lines)

\* C1: once the three readers have returned E, L and A, the result is exactly
\* (E \cup L) \ A, it holds no name of A, and the merge steps leave E, L and A
\* as the readers returned them.
C1_Reconcile ==
  /\ [](pc \in {"report", "done"} =>
          /\ manual_packages =
               (manual_packages_extended_states \cup manual_packages_logs)
                 \ auto_installed_packages
          /\ manual_packages \cap auto_installed_packages = {})
  /\ [][(pc \in {"merge_es", "merge_logs", "remove_auto"}) =>
          (UNCHANGED <<manual_packages_extended_states, manual_packages_logs,
                       auto_installed_packages>>)]_vars

C1_Witness ==
  /\ pc = "done"
  /\ manual_packages_extended_states # {}
  /\ manual_packages_logs # {}
  /\ auto_installed_packages \cap
       (manual_packages_extended_states \cup manual_packages_logs) # {}
  /\ manual_packages # {}

\* C2: when the extended-states reader has read a well-formed file to its end,
\* its set excludes the package of every record with Auto-Installed: yes and
\* includes the package of every other record.
C2_ExtendedStatesRecords ==
  ESAtEnd /\ WellFormedES(f_lines) =>
    \A i \in 1..Len(f_lines) :
      IsPackageLine(f_lines[i]) =>
        (NameOfLine(f_lines[i]) \in reader_packages <=> ~RecordAutoYes(f_lines, i))

\* C3 as stated: when the status reader has read a file to its end, a name is
\* in its set exactly if a Status line with the marker stands in a paragraph
\* that holds a Package line with that name.
C3_OwnRecord ==
  StatusAtEnd =>
    \A n \in PackageNames :
      n \in reader_packages <=>
        \E i, j \in 1..Len(f_lines) :
          /\ IsPackageLine(f_lines[i]) /\ NameOfLine(f_lines[i]) = n
          /\ IsStatusLine(f_lines[j]) /\ Contains(f_lines[j], S_auto)
          /\ SameParagraph(f_lines, i, j)

\* C3 amended: when the status reader has read a file to its end, its set holds
\* only non-empty names, and a non-empty name is in it exactly if a Status line
\* with the marker comes after a Package line with that name with no other
\* Package line in between, whatever blank lines separate the two.
C3_MostRecentPackage ==
  StatusAtEnd =>
    /\ reader_packages \subseteq PackageNames
    /\ \A n \in PackageNames :
         n \in reader_packages <=>
           \E i, j \in 1..Len(f_lines) :
             /\ i < j
             /\ IsPackageLine(f_lines[i]) /\ NameOfLine(f_lines[i]) = n
             /\ IsStatusLine(f_lines[j]) /\ Contains(f_lines[j], S_auto)
             /\ \A k \in (i + 1)..(j - 1) : ~IsPackageLine(f_lines[k])

\* a marked Status line separated from its Package line by a blank line
C3_Witness ==
  /\ StatusAtEnd
  /\ reader_packages # {}
  /\ \E i \in 2..(Len(f_lines) - 1) :
       /\ IsPackageLine(f_lines[i - 1])
       /\ IsBlank(f_lines[i])
       /\ IsStatusLine(f_lines[i + 1]) /\ Contains(f_lines[i + 1], S_auto)

HasDiagnostic(out, kind) == \E i \in 1..Len(out) : out[i].kind = kind

\* C4: a step of the extended-states reader or of the status reader in which
\* open or a read raises ends with the reader returning the empty set, a
\* diagnostic emitted, and no exception leaving the reader.
C4_ReadFailureContained ==
  /\ [][(pc \in {"es_open", "es_read"}) /\ "es" \in failed' =>
          /\ uncaught' = "none"
          /\ pc' = "merge_es"
          /\ manual_packages_extended_states' = {}
          /\ HasDiagnostic(stdout' \o stderr', "error_reading_extended_states")]_vars
  /\ [][(pc \in {"status_open", "status_read"}) /\ "status" \in failed' =>
          /\ uncaught' = "none"
          /\ pc' = "remove_auto"
          /\ auto_installed_packages' = {}
          /\ HasDiagnostic(stdout' \o stderr', "error_reading_status")]_vars

\* C5: no step of the log scanner aborts the run or writes anything: a file
\* that cannot be opened or read is passed over and the scanner stays in its
\* loop over the files.
C5_LogFailureSkipped ==
  [][(pc \in {"logs_loop", "log_read", "log_scan"}) =>
       /\ uncaught' = "none"
       /\ pc' \in {"logs_loop", "log_read", "log_scan", "merge_logs"}
       /\ stdout' = stdout
       /\ stderr' = stderr]_vars

C7_StdoutOnlyReport ==
  \A i \in 1..Len(stdout) : stdout[i].kind \in {"package", "none_found"}

\* the tokens of a matched list: the pieces between commas, without the
\* whitespace that follows a comma
ListTokens(str) ==
  LET parts == Split(str, <<",">>) IN [i \in 1..Len(parts) |-> LStrip(parts[i])]

\* a token without its =version suffix
TokenName(tok) ==
  LET i == Find(tok, <<"=">>, 1) IN IF i = 0 THEN tok ELSE SubSeq(tok, 1, i - 1)

\* the names C8 expects of line l
ExpectedNames(l) ==
  IF Contains(l, S_sp_install_sp) /\ InstallPatternSearch(l) # None
    THEN LET toks == ListTokens(InstallPatternSearch(l)[1]) IN
         {TokenName(toks[i]) : i \in {j \in 1..Len(toks) : toks[j] # S_dot}}
    ELSE {}

\* C8: when the scanner has handled a line with an install list, its set holds
\* the name of every token of the list, except a token that is exactly ".".
C8_AllTokensAdded ==
  [][pc = "log_scan" => ExpectedNames(line) \subseteq reader_packages']_vars

\* C9: main appends to standard output, for a non-empty result R, exactly |R|
\* package lines that carry the names of R in strictly increasing order, and
\* for an empty R the single "none found" line; the exit status is 0.
C9_Report ==
  [][pc = "report" =>
       LET out == SubSeq(stdout', Len(stdout) + 1, Len(stdout')) IN
       /\ SubSeq(stdout', 1, Len(stdout)) = stdout
       /\ exit_code' = 0
       /\ IF manual_packages # {}
            THEN /\ Len(out) = Cardinality(manual_packages)
                 /\ \A i \in 1..Len(out) : out[i].kind = "package"
                 /\ {out[i].name : i \in 1..Len(out)} = manual_packages
                 /\ \A i \in 1..(Len(out) - 1) : StrLess(out[i].name, out[i + 1].name)
            ELSE out = <<NoneFoundOut>>]_vars

C9_Witness ==
  /\ pc = "done"
  /\ exit_code = 0
  /\ Cardinality(manual_packages) >= 2
  /\ Len(stdout) >= 2

\* C10: inside the log scanner the set of names never loses a name, also in a
\* step where a read raises and is caught, and the scanner returns that set;
\* the extended-states and status readers return the empty set on a caught
\* failure.
C10_LogFailureKeepsNames ==
  /\ [][(pc \in {"logs_loop", "log_read", "log_scan"}) /\ uncaught' = "none" =>
          /\ pc' \in {"logs_loop", "log_read", "log_scan"} =>
               reader_packages \subseteq reader_packages'
          /\ pc' = "merge_logs" => manual_packages_logs' = reader_packages]_vars
  /\ [][(pc \in {"es_open", "es_read"}) /\ "es" \in failed' /\ uncaught' = "none" =>
          manual_packages_extended_states' = {}]_vars
  /\ [][(pc \in {"status_open", "status_read"}) /\ "status" \in failed' /\ uncaught' = "none" =>
          auto_installed_packages' = {}]_vars

\* the only log file failed after names had been taken from it
C10_Witness ==
  /\ pc = "logs_loop"
  /\ Len(log_files) = 1
  /\ log_idx = 1
  /\ "logs" \in failed
  /\ reader_packages # {}

====
